---- MODULE Spec2Model ----
(***************************************************************************)
(* State-machine model of the thermal calculator: the Mesh (mesh.py), its  *)
(* Nodes (node.py), the boundary conditions (boundary_conditions.py) and   *)
(* the mutations the driver performs on them (main.py).                    *)
(*                                                                         *)
(* A node object is identified by the grid slot <<i, j>> it was created    *)
(* in (row i, column j); nodes are never moved or re-created, so the slot  *)
(* of creation is the object identity and a reference to a node is that    *)
(* pair.  None is the empty tuple.                                         *)
(*                                                                         *)
(* Real numbers (spacings, coefficients of the sympy expressions) are      *)
(* exact rationals <<num, den>>.  The one place where the float rounding   *)
(* of the build decides a discrete result, int(x / delta_x) in the symbol  *)
(* name, is computed in IEEE-754 binary64 with round-to-nearest-even.      *)
(***************************************************************************)
EXTENDS Integers, Sequences, FiniteSets, TLC

VARIABLES width, height, delta_x, delta_y, symbolic_temp, nodes, ret

vars == <<width, height, delta_x, delta_y, symbolic_temp, nodes, ret>>

None == <<>>

-----------------------------------------------------------------------------
(* TLC passes operator arguments unevaluated and evaluates them again at     *)
(* every use.  The arithmetic below binds each argument once, as the bound   *)
(* variable of a singleton set, before using it: {e(v) : v \in {a}}.         *)

The(S) == CHOOSE r \in S : TRUE

-----------------------------------------------------------------------------
(* Exact rationals <<num, den>>, den > 0, in lowest terms.                  *)

Abs(n) == IF n < 0 THEN -n ELSE n

RECURSIVE Gcd(_, _)
Gcd(a, b) == IF b = 0 THEN a ELSE Gcd(b, a % b)

QNorm(n, d) ==
    The({ LET g == Gcd(Abs(nn), Abs(dd))
              s == IF dd < 0 THEN -1 ELSE 1
          IN  <<(s * nn) \div g, (s * dd) \div g>> : nn \in {n}, dd \in {d} })

Q(n) == <<n, 1>>
QAdd(a, b) == The({ QNorm(x[1] * y[2] + y[1] * x[2], x[2] * y[2]) : x \in {a}, y \in {b} })
QNeg(a) == The({ <<-x[1], x[2]>> : x \in {a} })
QSub(a, b) == QAdd(a, QNeg(b))
QMul(a, b) == The({ QNorm(x[1] * y[1], x[2] * y[2]) : x \in {a}, y \in {b} })
QDiv(a, b) == The({ QNorm(x[1] * y[2], x[2] * y[1]) : x \in {a}, y \in {b} })

-----------------------------------------------------------------------------
(* IEEE-754 binary64 arithmetic, as CPython's float does it.  A significand *)
(* does not fit a TLC integer, so naturals up to 2^120 are eight limbs of   *)
(* fifteen bits, least significant first.                                   *)

LimbBits == 15
NLimbs == 8
LimbBase == 2^LimbBits
Limbs == 1..NLimbs

\* The eight limbs F(1), ..., F(8), evaluated now (TLC leaves [k \in S |-> e]
\* unevaluated until it is applied)
LimbsOf(F(_)) == <<F(1), F(2), F(3), F(4), F(5), F(6), F(7), F(8)>>

\* sys.float_info.mant_dig of the float type used for x, y, delta_x, delta_y
MantDig == 53

\* a small int, 0 <= n < 2^30
BOfInt(n) ==
    The({ (LET F(k) == IF k = 1 THEN v % LimbBase ELSE IF k = 2 THEN v \div LimbBase ELSE 0 IN LimbsOf(F))
          : v \in {n} })

BZero == (LET F(k) == 0 IN LimbsOf(F))

\* 2a + bit
BDouble(a, bit) ==
    The({ (LET F(k) == (2 * x[k] + (IF k = 1 THEN b ELSE x[k - 1] \div (LimbBase \div 2))) % LimbBase IN LimbsOf(F))
          : x \in {a}, b \in {bit} })

\* a \div 2
BHalve(a) ==
    The({ (LET F(k) == x[k] \div 2 + (IF k < NLimbs THEN (x[k + 1] % 2) * (LimbBase \div 2) ELSE 0) IN LimbsOf(F))
          : x \in {a} })

\* a < b
BLess(a, b) ==
    The({ \E k \in Limbs : x[k] < y[k] /\ \A l \in Limbs : l > k => x[l] = y[l]
          : x \in {a}, y \in {b} })

\* the borrow out of limb k of a - b
RECURSIVE BBorrow(_, _, _)
BBorrow(a, b, k) ==
    IF k = 0 THEN 0
    ELSE IF a[k] - b[k] - BBorrow(a, b, k - 1) < 0 THEN 1 ELSE 0

\* a - b, for a >= b
BSub(a, b) ==
    The({ (LET F(k) == (x[k] - y[k] - BBorrow(x, y, k - 1) + LimbBase) % LimbBase IN LimbsOf(F))
          : x \in {a}, y \in {b} })

\* the carry out of limb k of a * j
RECURSIVE BCarry(_, _, _)
BCarry(a, j, k) ==
    IF k = 0 THEN 0
    ELSE (a[k] * j + BCarry(a, j, k - 1)) \div LimbBase

\* a * j, for 0 <= j < 2^15
BMulSmall(a, j) ==
    The({ (LET F(k) == (x[k] * i + BCarry(x, i, k - 1)) % LimbBase IN LimbsOf(F))
          : x \in {a}, i \in {j} })

\* a + 1
BInc(a) == The({ (LET F(k) == IF \A l \in 1..(k - 1) : x[l] = LimbBase - 1 THEN (x[k] + 1) % LimbBase ELSE x[k] IN LimbsOf(F)) : x \in {a} })

Limb(a, k) == IF k \in Limbs THEN a[k] ELSE 0

\* a * 2^s (the bits that leave the eight limbs are lost)
BShiftLeft(a, s) ==
    The({ (LET F(k) == ((Limb(x, k - (t \div LimbBits)) * 2^(t % LimbBits)) % LimbBase) + (Limb(x, k - (t \div LimbBits) - 1) \div 2^(LimbBits - (t % LimbBits))) IN LimbsOf(F))
          : x \in {a}, t \in {s} })

\* a \div 2^s
BShiftRight(a, s) ==
    The({ (LET F(k) == (Limb(x, k + (t \div LimbBits)) \div 2^(t % LimbBits)) + ((Limb(x, k + (t \div LimbBits) + 1) % 2^(t % LimbBits)) * 2^(LimbBits - (t % LimbBits))) IN LimbsOf(F))
          : x \in {a}, t \in {s} })

\* the number of bits of a: 0 for 0, else 1 + floor(log2 a)
BBitLen(a) ==
    The({ IF x = BZero THEN 0
          ELSE The({ (k - 1) * LimbBits + (CHOOSE n \in 1..LimbBits : 2^(n - 1) <= x[k] /\ x[k] < 2^n)
                     : k \in {CHOOSE k \in Limbs : x[k] # 0 /\ \A l \in Limbs : l > k => x[l] = 0} })
          : x \in {a} })

\* bit i of a, bit 0 the least significant
BBit(a, i) == The({ (x[(t \div LimbBits) + 1] \div (2^(t % LimbBits))) % 2 : x \in {a}, t \in {i} })

BToInt(a) == The({ x[1] + LimbBase * x[2] : x \in {a} })

\* Long division of a by d, for a < 2d, continued below the binary point: a
\* state [quot, rem] holds the quotient and the remainder of a * 2^i by d, and
\* one step yields those of a * 2^(i + 1).
BDivStep(d, st) ==
    The({ The({ IF BLess(r2, d) THEN [quot |-> BDouble(t.quot, 0), rem |-> r2]
                ELSE [quot |-> BDouble(t.quot, 1), rem |-> BSub(r2, d)]
                : r2 \in {BDouble(t.rem, 0)} })
          : t \in {st} })

\* s steps, s < 64, by the binary digits of s; each step is evaluated before
\* the next one is entered
BDivStep2(d, st) == The({ BDivStep(d, t) : t \in {BDivStep(d, st)} })
BDivStep4(d, st) == The({ BDivStep2(d, t) : t \in {BDivStep2(d, st)} })
BDivStep8(d, st) == The({ BDivStep4(d, t) : t \in {BDivStep4(d, st)} })
BDivStep16(d, st) == The({ BDivStep8(d, t) : t \in {BDivStep8(d, st)} })
BDivStep32(d, st) == The({ BDivStep16(d, t) : t \in {BDivStep16(d, st)} })

BDivSteps(d, s, st) ==
    The({ s32 : s32 \in { IF (s \div 32) % 2 = 1 THEN BDivStep32(d, s16) ELSE s16
        : s16 \in { IF (s \div 16) % 2 = 1 THEN BDivStep16(d, s8) ELSE s8
        : s8 \in { IF (s \div 8) % 2 = 1 THEN BDivStep8(d, s4) ELSE s4
        : s4 \in { IF (s \div 4) % 2 = 1 THEN BDivStep4(d, s2) ELSE s2
        : s2 \in { IF (s \div 2) % 2 = 1 THEN BDivStep2(d, s1) ELSE s1
        : s1 \in { IF s % 2 = 1 THEN BDivStep(d, st) ELSE st } } } } } } })

\* quotient and remainder of a * 2^s by d, for a < 2d
BDivMod(a, d, s) ==
    The({ IF BLess(x, y) THEN BDivSteps(y, s, [quot |-> BZero, rem |-> x])
          ELSE BDivSteps(y, s, [quot |-> BOfInt(1), rem |-> BSub(x, y)]) : x \in {a}, y \in {d} })

\* A float is [m, e], value m * 2^e, with m = 0 or 2^52 <= m < 2^53.
FZero == [m |-> BZero, e |-> 0]

\* The float nearest to (n + f) * 2^e, 0 <= f < 1, sticky saying f > 0;
\* ties go to the even significand.
FRoundAt(n, e, sticky, s) ==
    IF s <= -MantDig THEN FZero
    ELSE IF s <= 0 THEN [m |-> BShiftLeft(n, -s), e |-> e + s]
    ELSE The({ IF BBitLen(m) > MantDig
               THEN [m |-> BHalve(m), e |-> e + s + 1]
               ELSE [m |-> m, e |-> e + s]
               : m \in { The({ IF BBit(n, s - 1) = 1
                                  /\ (\/ BShiftLeft(BShiftRight(n, s - 1), s - 1) # n
                                      \/ sticky
                                      \/ BBit(q, 0) = 1)
                               THEN BInc(q) ELSE q : q \in {BShiftRight(n, s)} }) } })

FRound(n, e, sticky) ==
    The({ FRoundAt(x, e, sticky, BBitLen(x) - MantDig) : x \in {n} })

\* float(n) of a small non-negative int
FOfInt(n) == FRound(BOfInt(n), 0, FALSE)

\* j * d, j a small non-negative int
FMulInt(j, d) == The({ FRound(BMulSmall(x.m, j), x.e, FALSE) : x \in {d} })

\* a / b, b # 0
FDiv(a, b) ==
    The({ IF x.m = BZero THEN FZero
          ELSE The({ FRound(dm.quot, x.e - y.e - (MantDig + 2), dm.rem # BZero)
                     : dm \in {BDivMod(x.m, y.m, MantDig + 2)} })
          : x \in {a}, y \in {b} })

\* int(d) of a non-negative float below 2^30: truncation
FInt(d) ==
    The({ IF x.m = BZero THEN 0
          ELSE IF x.e >= 0 THEN BToInt(BShiftLeft(x.m, x.e))
          ELSE IF -x.e >= NLimbs * LimbBits THEN 0
          ELSE BToInt(BShiftRight(x.m, -x.e)) : x \in {d} })

\* The float a decimal literal n/d denotes (the float nearest to n/d)
FOfQ(r) == FDiv(FOfInt(r[1]), FOfInt(r[2]))
-----------------------------------------------------------------------------
(* The grid and its adjacency (mesh.py).                                    *)

\* The arguments Mesh is built with: width, height, delta_x, delta_y.  The
\* second mesh has one row and four columns, spaced 0.7 apart.
MeshArgs ==
    { [width |-> 3, height |-> 3, delta_x |-> <<1, 5>>, delta_y |-> <<2, 5>>],
      [width |-> 4, height |-> 1, delta_x |-> <<7, 10>>, delta_y |-> <<1, 5>>] }

\* The keys of Node.neighbors
Directions ==
    {"up", "down", "left", "right", "left_down", "left_up", "right_down", "right_up"}

\* directions with the offsets of left_down and left_up exchanged
directions_swapped ==
    { <<-1, 0, "down">>, <<1, 0, "up">>, <<0, -1, "left">>, <<0, 1, "right">>,
      <<1, -1, "left_down">>, <<-1, -1, "left_up">>,
      <<-1, 1, "right_down">>, <<1, 1, "right_up">> }

\* connect_neighbors: (di, dj, direction_name)
directions ==
    { <<-1, 0, "down">>, <<1, 0, "up">>, <<0, -1, "left">>, <<0, 1, "right">>,
      <<-1, -1, "left_down">>, <<1, -1, "left_up">>,
      <<-1, 1, "right_down">>, <<1, 1, "right_up">> }

\* direction_map with the reverse directions of the two upper diagonals exchanged
direction_map_swapped ==
    { <<-1, 0, "up">>, <<1, 0, "down">>, <<0, -1, "right">>, <<0, 1, "left">>,
      <<-1, -1, "right_up">>, <<1, -1, "left_down">>,
      <<-1, 1, "left_up">>, <<1, 1, "right_down">> }

\* _clear_neighbor_references: (di, dj, reverse_direction)
direction_map ==
    { <<-1, 0, "up">>, <<1, 0, "down">>, <<0, -1, "right">>, <<0, 1, "left">>,
      <<-1, -1, "right_up">>, <<1, -1, "right_down">>,
      <<-1, 1, "left_up">>, <<1, 1, "left_down">> }

\* The slots nodes[i][j] of a height x width grid
Slots(w, h) == (0..(h - 1)) \X (0..(w - 1))

Pos == Slots(width, height)

NoNode == [kind |-> "None"]

IsNode(n) == n.kind = "Node"

\* temperature: the default 0.0, or float(x[idx]) of the solution x
InitialTemperature == [of |-> "default", idx |-> 0]
Solution(idx) == [of |-> "x", idx |-> idx]

\* Node.__init__: no boundary condition, no override, every neighbor None
NewNode ==
    [kind |-> "Node",
     temperature |-> InitialTemperature,
     boundary_conditions |-> <<>>,
     override |-> None,
     neighbors |-> [d \in Directions |-> None]]

\* BaseNode.__init__: the name T_a_b of the symbol of the node at x = j * delta_x,
\* y = i * delta_y, with a = int(x / delta_x) and b = int(y / delta_y) in floats
SymbolOf(i, j, dx, dy) ==
    The({ <<FInt(FDiv(FMulInt(j, fx), fx)), FInt(FDiv(FMulInt(i, fy), fy))>>
          : fx \in {FOfQ(dx)}, fy \in {FOfQ(dy)} })

\* The reference the slot <<ni, nj>> holds: the node created there, or None
SlotRef(ns, ni, nj) == IF IsNode(ns[<<ni, nj>>]) THEN <<ni, nj>> ELSE None

\* connect_neighbors: every node's map is cleared, then every in-bounds offset
\* is set to what the slot holds
ConnectedNeighbors(ns, w, h, i, j) ==
    [d \in Directions |->
        LET e == CHOOSE t \in directions : t[3] = d
            ni == i + e[1]
            nj == j + e[2]
        IN  IF 0 <= ni /\ ni < h /\ 0 <= nj /\ nj < w
            THEN SlotRef(ns, ni, nj)
            ELSE None]

connect_neighbors(ns, w, h) ==
    [p \in Slots(w, h) |->
        IF IsNode(ns[p])
        THEN [ns[p] EXCEPT !.neighbors = ConnectedNeighbors(ns, w, h, p[1], p[2])]
        ELSE ns[p]]

\* _clear_neighbor_references(i, j)
clear_neighbor_references(ns, w, h, i, j) ==
    [q \in Slots(w, h) |->
        IF IsNode(ns[q]) /\ \E e \in direction_map : q = <<i + e[1], j + e[2]>>
        THEN LET e == CHOOSE t \in direction_map : q = <<i + t[1], j + t[2]>>
             IN  [ns[q] EXCEPT !.neighbors[e[3]] = None]
        ELSE ns[q]]

\* What the last call returned (val) or raised (exc)
Return(op, args, val) == [op |-> op, args |-> args, val |-> val, exc |-> "", by |-> None]
Raise(op, args, exc, by) == [op |-> op, args |-> args, val |-> None, exc |-> exc, by |-> by]

\* Mesh.__init__
InitOf(M) ==
    \E a \in M :
        /\ width = a.width
        /\ height = a.height
        /\ delta_x = a.delta_x
        /\ delta_y = a.delta_y
        /\ symbolic_temp = [p \in Slots(a.width, a.height) |->
                               SymbolOf(p[1], p[2], a.delta_x, a.delta_y)]
        /\ nodes = connect_neighbors([p \in Slots(a.width, a.height) |-> NewNode],
                                     a.width, a.height)
        /\ ret = Return("__init__", None, None)

Init == InitOf(MeshArgs)

\* The removed slots so far
Vacated == {p \in Pos : ~IsNode(nodes[p])}

MaxRemoved == 2

\* main.py, apply_boundary_conditions: the references to the node are cleared
\* and its slot is set to None
Remove(i, j) ==
    /\ IsNode(nodes[<<i, j>>])
    /\ Cardinality(Vacated) < MaxRemoved
    /\ nodes' = [clear_neighbor_references(nodes, width, height, i, j)
                    EXCEPT ![<<i, j>>] = NoNode]
    /\ ret' = Return("remove", <<i, j>>, None)
    /\ UNCHANGED <<width, height, delta_x, delta_y, symbolic_temp>>

\* mesh.connect_neighbors()
ConnectNeighbors ==
    /\ nodes' = connect_neighbors(nodes, width, height)
    /\ ret' = Return("connect_neighbors", None, None)
    /\ UNCHANGED <<width, height, delta_x, delta_y, symbolic_temp>>

\* __getitem__ taking its pair as (row, column)
getitem_row_first(ns, w, h, m, n) ==
    IF 0 <= m /\ m < h /\ 0 <= n /\ n < w
    THEN Return("__getitem__", <<m, n>>, SlotRef(ns, m, n))
    ELSE Raise("__getitem__", <<m, n>>, "IndexError", None)

\* mesh[m, n]
getitem(ns, w, h, m, n) ==
    IF 0 <= n /\ n < h /\ 0 <= m /\ m < w
    THEN Return("__getitem__", <<m, n>>, SlotRef(ns, n, m))
    ELSE Raise("__getitem__", <<m, n>>, "IndexError", None)

Indices == (-1)..4

GetItem(m, n) ==
    /\ ret' = getitem(nodes, width, height, m, n)
    /\ UNCHANGED <<width, height, delta_x, delta_y, symbolic_temp, nodes>>

NextGrid ==
    \/ \E p \in Pos : Remove(p[1], p[2])
    \/ ConnectNeighbors
    \/ \E m \in Indices, n \in Indices : GetItem(m, n)

SpecGrid == Init /\ [][NextGrid]_vars

-----------------------------------------------------------------------------
(* Properties of the grid and its adjacency.                                *)

Occupied == {p \in Pos : IsNode(nodes[p])}

Opposite(d) ==
    CASE d = "up" -> "down" [] d = "down" -> "up"
      [] d = "left" -> "right" [] d = "right" -> "left"
      [] d = "left_up" -> "right_down" [] d = "right_down" -> "left_up"
      [] d = "right_up" -> "left_down" [] d = "left_down" -> "right_up"

\* C1: after any sequence of removals, no node still in the grid has, in any
\* of its 8 directions, a reference to a node that was removed from its slot.
C1_NoReferenceToRemoved ==
    \A q \in Vacated : \A p \in Occupied : \A d \in Directions :
        nodes[p].neighbors[d] # q

\* Two slots are vacated, the last one removed had other nodes around it, and
\* one of the vacated slots is a corner and the other is not.
C1_Witness ==
    /\ ret.op = "remove"
    /\ Cardinality(Vacated) = 2
    /\ \E q \in Vacated : q[1] \in {0, height - 1} /\ q[2] \in {0, width - 1}
    /\ \E q \in Vacated : 0 < q[1] /\ q[1] < height - 1 /\ 0 < q[2] /\ q[2] < width - 1
    /\ \E p \in Occupied : Abs(p[1] - ret.args[1]) <= 1 /\ Abs(p[2] - ret.args[2]) <= 1

\* C2: for all nodes A and B in the grid and every direction d, A.neighbors[d]
\* is B exactly when B.neighbors[opposite(d)] is A.
C2_Bidirectional ==
    \A a \in Occupied : \A b \in Occupied : \A d \in Directions :
        nodes[a].neighbors[d] = b <=> nodes[b].neighbors[Opposite(d)] = a

\* Links exist next to a vacated slot, after a removal followed by a
\* connect_neighbors() call.
C2_Witness ==
    /\ ret.op = "connect_neighbors"
    /\ Vacated # {}
    /\ \E a \in Occupied : \E d \in Directions :
          /\ nodes[a].neighbors[d] # None
          /\ \E e \in Directions : nodes[a].neighbors[e] = None
                                   /\ \E t \in directions : t[3] = e /\ <<a[1] + t[1], a[2] + t[2]>> \in Vacated

\* C9 as stated: mesh[a, b] takes a as the row (bounded by height) and b as the
\* column (bounded by width), returns nodes[a][b], and raises IndexError when
\* either is out of range.
C9_RowFirst ==
    ret.op = "__getitem__" =>
        LET a == ret.args[1]
            b == ret.args[2]
        IN  IF 0 <= a /\ a < height /\ 0 <= b /\ b < width
            THEN ret.exc = "" /\ ret.val = SlotRef(nodes, a, b)
            ELSE ret.exc = "IndexError"

\* C9, amended: mesh[m, n] takes m as the column (bounded by width) and n as the
\* row (bounded by height), returns nodes[n][m], and raises IndexError when
\* either is out of range, negative values included.
C9_ColumnFirst ==
    ret.op = "__getitem__" =>
        LET m == ret.args[1]
            n == ret.args[2]
        IN  IF 0 <= m /\ m < width /\ 0 <= n /\ n < height
            THEN ret.exc = "" /\ ret.val = SlotRef(nodes, n, m)
            ELSE ret.exc = "IndexError"

\* mesh[3, 0] returned the node of row 0, column 3 of the one-row mesh.
C9_Witness ==
    /\ ret.op = "__getitem__"
    /\ ret.args = <<3, 0>>
    /\ height = 1
    /\ ret.exc = ""
    /\ ret.val = <<0, 3>>

\* C10: in every reachable state connect_neighbors() leaves every node with the
\* neighbor map it already has: run after the constructor it reproduces the
\* adjacency the constructor established, run twice in a row the second run
\* yields what the first did, and the same holds with vacated slots.
C10_ConnectReproduces ==
    connect_neighbors(nodes, width, height) = nodes

\* connect_neighbors() has run twice in a row on a grid with vacated slots
\* and with links left: ret counts as the second run when the state before
\* was itself the result of a run, which the invariant makes every state.
C10_Witness ==
    /\ ret.op = "connect_neighbors"
    /\ Cardinality(Vacated) = 2
    /\ \E p \in Occupied : \E d \in Directions : nodes[p].neighbors[d] # None

-----------------------------------------------------------------------------
(* Expressions (sympy).  Every expression the program builds is linear in   *)
(* the temperature symbols: it is the set of its terms <<key, coefficient>> *)
(* with a nonzero coefficient, the key being a symbol <<a, b>> (T_a_b) or   *)
(* None for the constant term.  An attribute or result that is None or an   *)
(* expression is the empty tuple or the 1-tuple of the expression.          *)

QZero == <<0, 1>>

EZero == {}
EConst(c) == The({ IF x = QZero THEN {} ELSE {<<None, x>>} : x \in {c} })
ESym(s) == {<<s, <<1, 1>>>>}
EKeys(e) == {t[1] : t \in e}
ECoef(e, key) ==
    IF \E t \in e : t[1] = key THEN (CHOOSE t \in e : t[1] = key)[2] ELSE QZero
EAdd(a, b) ==
    The({ {t \in {<<key, QAdd(ECoef(x, key), ECoef(y, key))>> : key \in EKeys(x) \cup EKeys(y)}
              : t[2] # QZero}
          : x \in {a}, y \in {b} })
EScale(c, e) ==
    The({ IF x = QZero THEN {} ELSE {<<t[1], QMul(x, t[2])>> : t \in y} : x \in {c}, y \in {e} })
ESub(a, b) == EAdd(a, EScale(<<-1, 1>>, b))

-----------------------------------------------------------------------------
(* Boundary conditions (boundary_conditions.py) and the constants the       *)
(* driver builds them and the nodes with (main.py).                         *)

k == 20
q_dot_gen == 10000
h == 10
tinf == 30
const_temp == 100
q_prime_prime == 10

ConstantTemperatureBC(temperature) ==
    [type |-> "ConstantTemperatureBC", temperature |-> temperature]
ConvectionBC(hh, T_inf) == [type |-> "ConvectionBC", h |-> hh, T_inf |-> T_inf]
HeatFluxBC(heat_flux) == [type |-> "HeatFluxBC", heat_flux |-> heat_flux]

\* The conditions apply_boundary_conditions attaches
BoundaryConditions ==
    {ConstantTemperatureBC(const_temp), ConvectionBC(h, tinf), HeatFluxBC(q_prime_prime)}

\* bc.get_contribution(node), the node's symbol being sym
get_contribution(bc, sym) ==
    CASE bc.type = "ConstantTemperatureBC" -> EZero
      [] bc.type = "ConvectionBC" ->
            EScale(Q(bc.h), ESub(EConst(Q(bc.T_inf)), ESym(sym)))
      [] bc.type = "HeatFluxBC" -> EConst(Q(bc.heat_flux))

-----------------------------------------------------------------------------
(* Node.compute_finite_difference (node.py).                                *)

\* isinstance(self.neighbors[d], Node)
HasNeighbor(n, d) == n.neighbors[d] # None

\* left_up, right_up, left_down, right_down: the diagonal neighbor and both
\* orthogonal neighbors of the quadrant are Nodes
Quadrants == {"left_up", "right_up", "left_down", "right_down"}
Horizontal(qd) == IF qd \in {"left_up", "left_down"} THEN "left" ELSE "right"
Vertical(qd) == IF qd \in {"left_up", "right_up"} THEN "up" ELSE "down"
\* A quadrant counted complete on its diagonal neighbor alone
complete_diagonal_only(n, qd) == HasNeighbor(n, qd)
Complete(n, qd) ==
    HasNeighbor(n, qd) /\ HasNeighbor(n, Horizontal(qd)) /\ HasNeighbor(n, Vertical(qd))
CompleteQuadrants(n) == {qd \in Quadrants : Complete(n, qd)}

\* number_rects
number_rects(n) == Cardinality(CompleteQuadrants(n))

\* What one complete quadrant adds to heat_transfer
QuadrantTransfer(n, sym, self, dx, dy, qd) ==
    EAdd(EScale(QDiv(QMul(Q(k), QDiv(dy, Q(2))), dx),
                ESub(ESym(sym[n.neighbors[Horizontal(qd)]]), ESym(self))),
         EScale(QDiv(QMul(Q(k), QDiv(dx, Q(2))), dy),
                ESub(ESym(sym[n.neighbors[Vertical(qd)]]), ESym(self))))

\* What one complete quadrant adds to heat_gen: q_dot_gen * 0.25 * dx * dy
QuadrantGen(dx, dy) == QMul(QMul(QMul(Q(q_dot_gen), <<1, 4>>), dx), dy)

RECURSIVE ESum(_, _)
ESum(F(_), S) ==
    IF S = {} THEN EZero
    ELSE LET x == CHOOSE y \in S : TRUE IN EAdd(F(x), ESum(F, S \ {x}))

\* base_equation = heat_transfer + heat_gen
base_equation(n, sym, self, dx, dy) ==
    LET T(qd) == QuadrantTransfer(n, sym, self, dx, dy, qd)
        G(qd) == EConst(QuadrantGen(dx, dy))
    IN  EAdd(ESum(T, CompleteQuadrants(n)), ESum(G, CompleteQuadrants(n)))

\* The local variable area was never assigned
Unbound == <<>>

\* area with the two same-side cases exchanged
area_exchanged(qs, dx, dy) ==
    IF Cardinality(qs) = 1 THEN QDiv(QAdd(dx, dy), Q(2))
    ELSE IF Cardinality(qs) = 2
    THEN IF qs \in {{"left_up", "right_down"}, {"right_up", "left_down"}} THEN QAdd(dx, dy)
         ELSE IF qs \in {{"left_up", "right_up"}, {"left_down", "right_down"}} THEN dy
         ELSE dx
    ELSE IF Cardinality(qs) = 3 THEN QDiv(QAdd(dx, dy), Q(2))
    ELSE Unbound

\* area, by the complete quadrants qs: it is assigned for 1, 2 and 3 of them
area(qs, dx, dy) ==
    IF Cardinality(qs) = 1 THEN QDiv(QAdd(dx, dy), Q(2))
    ELSE IF Cardinality(qs) = 2
    THEN IF qs \in {{"left_up", "right_down"}, {"right_up", "left_down"}} THEN QAdd(dx, dy)
         ELSE IF qs \in {{"left_up", "right_up"}, {"left_down", "right_down"}} THEN dx
         ELSE dy
    ELSE IF Cardinality(qs) = 3 THEN QDiv(QAdd(dx, dy), Q(2))
    ELSE Unbound

\* The lengths of boundary_conditions that do not raise, one more allowed
allowed_lengths_one_more == {0, 1, 2, 3}

\* len(self.boundary_conditions) not in (0, 1, 2)
allowed_lengths == {0, 1, 2}

\* The interior check looking at the quadrants only when there are two conditions
interior_with_conditions_two(n) == number_rects(n) = 4 /\ Len(n.boundary_conditions) > 1

\* number_rects == 4 and len(self.boundary_conditions) > 0
interior_with_conditions(n) == number_rects(n) = 4 /\ Len(n.boundary_conditions) > 0

\* The override looked at only when the node has no boundary condition
has_override_unless_conditions(n) == n.override # None /\ n.boundary_conditions = <<>>

\* self.override is not None
has_override(n) == n.override # None

\* The index of the first ConstantTemperatureBC of bcs, Len(bcs) + 1 if none:
\* the loop over the conditions breaks there
FirstConstantTemperature(bcs) ==
    IF \E c \in 1..Len(bcs) : bcs[c].type = "ConstantTemperatureBC"
    THEN CHOOSE c \in 1..Len(bcs) :
            /\ bcs[c].type = "ConstantTemperatureBC"
            /\ \A b \in 1..(c - 1) : bcs[b].type # "ConstantTemperatureBC"
    ELSE Len(bcs) + 1

\* boundary_contribution: each condition before the break adds area times its
\* contribution, halved when there are two conditions
boundary_contribution(bcs, ar, self) ==
    LET C(c) == IF Len(bcs) = 1 THEN EScale(ar, get_contribution(bcs[c], self))
                ELSE IF Len(bcs) = 2
                THEN EScale(QMul(<<1, 2>>, ar), get_contribution(bcs[c], self))
                ELSE EZero
    IN  ESum(C, 1..(FirstConstantTemperature(bcs) - 1))

\* node.compute_finite_difference() of the node of slot p
compute_finite_difference(ns, sym, dx, dy, p) ==
    LET n == ns[p]
        self == sym[p]
        bcs == n.boundary_conditions
        ar == area(CompleteQuadrants(n), dx, dy)
        c == FirstConstantTemperature(bcs)
    IN  IF has_override(n)
        THEN Return("compute_finite_difference", p, n.override)
        ELSE IF Len(bcs) \notin allowed_lengths
        THEN Raise("compute_finite_difference", p, "Exception",
                   "Must have 0, 1, or 2 boundary conditions per node")
        ELSE IF interior_with_conditions(n)
        THEN Raise("compute_finite_difference", p, "Exception",
                   "Cannot have boundary conditions in interior nodes")
        ELSE IF c > 1 /\ Len(bcs) \in {1, 2} /\ ar = Unbound
        THEN Raise("compute_finite_difference", p, "UnboundLocalError", "area")
        ELSE IF c <= Len(bcs)
        THEN Return("compute_finite_difference", p,
                    <<ESub(ESym(self), EConst(Q(bcs[c].temperature)))>>)
        ELSE Return("compute_finite_difference", p,
                    <<EAdd(base_equation(n, sym, self, dx, dy),
                           boundary_contribution(bcs, ar, self))>>)

-----------------------------------------------------------------------------
(* The driver's mutations of a node, and the assembly of its equation.      *)

MaxBoundaryConditions == 3
MaxConfigured == 1

\* The nodes of the grid that carry a boundary condition or an override
Configured ==
    {p \in Occupied : nodes[p].boundary_conditions # <<>> \/ nodes[p].override # None}

\* mesh.nodes[i][j].add_boundary_condition(bc)
AddBoundaryCondition(p, bc) ==
    /\ IsNode(nodes[p])
    /\ Len(nodes[p].boundary_conditions) < MaxBoundaryConditions
    /\ Cardinality(Configured \cup {p}) <= MaxConfigured
    /\ nodes' = [nodes EXCEPT ![p].boundary_conditions = Append(@, bc)]
    /\ ret' = Return("add_boundary_condition", p, None)
    /\ UNCHANGED <<width, height, delta_x, delta_y, symbolic_temp>>

\* The expressions assigned to override: the node's symbol minus 50
Overrides(p) == { ESub(ESym(symbolic_temp[p]), EConst(Q(50))) }

\* mesh[m, n].override = e
SetOverride(p, e) ==
    /\ IsNode(nodes[p])
    /\ nodes[p].override = None
    /\ Cardinality(Configured \cup {p}) <= MaxConfigured
    /\ nodes' = [nodes EXCEPT ![p].override = <<e>>]
    /\ ret' = Return("override", p, None)
    /\ UNCHANGED <<width, height, delta_x, delta_y, symbolic_temp>>

\* node.compute_finite_difference()
ComputeFiniteDifference(p) ==
    /\ IsNode(nodes[p])
    /\ ret' = compute_finite_difference(nodes, symbolic_temp, delta_x, delta_y, p)
    /\ UNCHANGED <<width, height, delta_x, delta_y, symbolic_temp, nodes>>

\* The slots of the nodes the driver configures and assembles: the first slot
\* and the middle one
Targets == {<<0, 0>>, <<(height - 1) \div 2, (width - 1) \div 2>>}

NextNode ==
    \/ \E p \in Pos : Remove(p[1], p[2])
    \/ \E p \in Targets : \E bc \in BoundaryConditions : AddBoundaryCondition(p, bc)
    \/ \E p \in Targets : \E e \in Overrides(p) : SetOverride(p, e)
    \/ \E p \in Targets : ComputeFiniteDifference(p)

SpecNode == Init /\ [][NextNode]_vars

-----------------------------------------------------------------------------
(* Properties of compute_finite_difference.                                 *)

Computed == ret.op = "compute_finite_difference"

\* C3, in the cases no other rule of the specification speaks about (no
\* override, at most 2 conditions, less than 4 complete quadrants): a node that
\* carries a ConstantTemperatureBC(v), anywhere in its list, gets the equation
\* symbol - v from compute_finite_difference.
C3_ConstantTemperature ==
    Computed =>
        LET n == nodes[ret.args]
            bcs == n.boundary_conditions
        IN  (/\ n.override = None
             /\ Len(bcs) <= 2
             /\ number_rects(n) < 4)
            => \A c \in 1..Len(bcs) :
                  bcs[c].type = "ConstantTemperatureBC" =>
                      /\ ret.exc = ""
                      /\ ret.val = <<ESub(ESym(symbolic_temp[ret.args]),
                                          EConst(Q(bcs[c].temperature)))>>

\* The table of C4 as stated: both up or both down gives dy, both left or both
\* right gives dx
StatedArea(qs, dx, dy) ==
    CASE Cardinality(qs) \in {1, 3} -> QDiv(QAdd(dx, dy), Q(2))
      [] qs \in {{"left_up", "right_up"}, {"left_down", "right_down"}} -> dy
      [] qs \in {{"left_up", "left_down"}, {"right_up", "right_down"}} -> dx
      [] qs \in {{"left_up", "right_down"}, {"right_up", "left_down"}} -> QAdd(dx, dy)

\* The table of C4 with the same-side cases the other way round: both up or
\* both down gives dx, both left or both right gives dy
AmendedArea(qs, dx, dy) ==
    CASE Cardinality(qs) \in {1, 3} -> QDiv(QAdd(dx, dy), Q(2))
      [] qs \in {{"left_up", "right_up"}, {"left_down", "right_down"}} -> dx
      [] qs \in {{"left_up", "left_down"}, {"right_up", "right_down"}} -> dy
      [] qs \in {{"left_up", "right_down"}, {"right_up", "left_down"}} -> QAdd(dx, dy)

\* The node's boundary contributions are scaled by an area: it has no
\* override, 1 or 2 conditions, none of them a ConstantTemperatureBC, and 1 to
\* 3 complete quadrants
Scaled(n) ==
    /\ n.override = None
    /\ Len(n.boundary_conditions) \in {1, 2}
    /\ FirstConstantTemperature(n.boundary_conditions) > Len(n.boundary_conditions)
    /\ number_rects(n) \in {1, 2, 3}

\* The equation of the node of slot p with its boundary contributions scaled by ar
EquationWithArea(p, ar) ==
    EAdd(base_equation(nodes[p], symbolic_temp, symbolic_temp[p], delta_x, delta_y),
         boundary_contribution(nodes[p].boundary_conditions, ar, symbolic_temp[p]))

\* C4 as stated: the boundary contributions are scaled by (dx+dy)/2 for 1 or 3
\* complete quadrants, by dy for 2 that are both up or both down, by dx for 2
\* that are both left or both right, by dx+dy for 2 diagonally opposite ones.
C4_AreaAsStated ==
    (Computed /\ Scaled(nodes[ret.args])) =>
        /\ ret.exc = ""
        /\ ret.val = <<EquationWithArea(ret.args,
                          StatedArea(CompleteQuadrants(nodes[ret.args]), delta_x, delta_y))>>

\* C4, amended: the boundary contributions are scaled by (dx+dy)/2 for 1 or 3
\* complete quadrants, by dx for 2 that are both up or both down, by dy for 2
\* that are both left or both right, by dx+dy for 2 diagonally opposite ones.
C4_AreaAmended ==
    (Computed /\ Scaled(nodes[ret.args])) =>
        /\ ret.exc = ""
        /\ ret.val = <<EquationWithArea(ret.args,
                          AmendedArea(CompleteQuadrants(nodes[ret.args]), delta_x, delta_y))>>

\* An equation was assembled for a node whose two complete quadrants are both
\* left, with one heat flux, on a mesh with dx # dy.
C4_Witness ==
    /\ Computed
    /\ ret.exc = ""
    /\ delta_x # delta_y
    /\ CompleteQuadrants(nodes[ret.args]) = {"left_up", "left_down"}
    /\ nodes[ret.args].override = None
    /\ nodes[ret.args].boundary_conditions = <<HeatFluxBC(q_prime_prime)>>

\* C5 as stated: compute_finite_difference raises whenever the node's list of
\* boundary conditions has a length outside {0, 1, 2}.
C5_CountAlwaysRaises ==
    (Computed /\ Len(nodes[ret.args].boundary_conditions) \notin {0, 1, 2}) =>
        ret.exc # ""

\* C5, amended: compute_finite_difference raises whenever the node has no
\* override and its list of boundary conditions has a length outside {0, 1, 2}.
C5_CountRaisesWithoutOverride ==
    (/\ Computed
     /\ nodes[ret.args].override = None
     /\ Len(nodes[ret.args].boundary_conditions) \notin {0, 1, 2}) =>
        /\ ret.exc = "Exception"
        /\ ret.val = None

\* The assembly raised for a node with 3 conditions, no override and less than
\* 4 complete quadrants.
C5_Witness ==
    /\ Computed
    /\ ret.exc = "Exception"
    /\ nodes[ret.args].override = None
    /\ Len(nodes[ret.args].boundary_conditions) = 3
    /\ number_rects(nodes[ret.args]) < 4

\* C6 as stated: compute_finite_difference raises whenever the node has 4
\* complete quadrants and at least one boundary condition.
C6_InteriorAlwaysRaises ==
    (/\ Computed
     /\ number_rects(nodes[ret.args]) = 4
     /\ Len(nodes[ret.args].boundary_conditions) > 0) =>
        ret.exc # ""

\* C6, amended: compute_finite_difference raises whenever the node has no
\* override, 4 complete quadrants and at least one boundary condition.
C6_InteriorRaisesWithoutOverride ==
    (/\ Computed
     /\ nodes[ret.args].override = None
     /\ number_rects(nodes[ret.args]) = 4
     /\ Len(nodes[ret.args].boundary_conditions) > 0) =>
        /\ ret.exc = "Exception"
        /\ ret.val = None

\* The assembly raised for a node with 4 complete quadrants whose only
\* condition is a ConstantTemperatureBC.
C6_Witness ==
    /\ Computed
    /\ ret.exc = "Exception"
    /\ ret.by = "Cannot have boundary conditions in interior nodes"
    /\ number_rects(nodes[ret.args]) = 4
    /\ nodes[ret.args].boundary_conditions = <<ConstantTemperatureBC(const_temp)>>

\* C8: when the node's override is set, compute_finite_difference returns the
\* override and does not raise, whatever its neighbors and boundary conditions.
C8_OverrideVerbatim ==
    (Computed /\ nodes[ret.args].override # None) =>
        /\ ret.exc = ""
        /\ ret.val = nodes[ret.args].override

\* The override was returned for a node with 4 complete quadrants and 3
\* boundary conditions.
C8_Witness ==
    /\ Computed
    /\ ret.exc = ""
    /\ nodes[ret.args].override # None
    /\ ret.val = nodes[ret.args].override
    /\ number_rects(nodes[ret.args]) = 4
    /\ Len(nodes[ret.args].boundary_conditions) = 3

\* The node's equation is put together from conduction, generation and its
\* boundary conditions: it has no override, 0 to 2 conditions, none of them a
\* ConstantTemperatureBC, and it is not an interior node that carries conditions
Combines(n) ==
    /\ n.override = None
    /\ Len(n.boundary_conditions) \in {0, 1, 2}
    /\ FirstConstantTemperature(n.boundary_conditions) > Len(n.boundary_conditions)
    /\ ~(number_rects(n) = 4 /\ Len(n.boundary_conditions) > 0)

\* The conduction of the node of slot p, direction by direction: each complete
\* quadrant on the side of an orthogonal neighbor adds k times half the
\* perpendicular spacing times (neighbor - self) over the spacing along the axis
Conduction(p) ==
    LET n == nodes[p]
        self == symbolic_temp[p]
        Along(d) == IF d \in {"left", "right"} THEN delta_x ELSE delta_y
        Across(d) == IF d \in {"left", "right"} THEN delta_y ELSE delta_x
        Sides(d) == Cardinality({qd \in CompleteQuadrants(n) :
                                    d \in {Horizontal(qd), Vertical(qd)}})
        Term(d) == IF Sides(d) = 0 THEN EZero
                   ELSE EScale(QMul(Q(Sides(d)),
                                    QDiv(QMul(Q(k), QMul(Across(d), <<1, 2>>)), Along(d))),
                               ESub(ESym(symbolic_temp[n.neighbors[d]]), ESym(self)))
    IN  EAdd(EAdd(Term("left"), Term("right")), EAdd(Term("up"), Term("down")))

\* The generation of the node of slot p: q_dot x 0.25 x dx x dy per complete quadrant
Generation(p) ==
    EConst(QMul(Q(number_rects(nodes[p])),
                QMul(QMul(Q(q_dot_gen), <<1, 4>>), QMul(delta_x, delta_y))))

\* area x contribution(self) for one condition, 0.5 x area x contribution(self)
\* summed over both for two, nothing for none
Contributions(p) ==
    LET bcs == nodes[p].boundary_conditions
        self == symbolic_temp[p]
        ar == AmendedArea(CompleteQuadrants(nodes[p]), delta_x, delta_y)
    IN  IF Len(bcs) = 0 THEN EZero
        ELSE IF Len(bcs) = 1 THEN EScale(ar, get_contribution(bcs[1], self))
        ELSE EAdd(EScale(QMul(<<1, 2>>, ar), get_contribution(bcs[1], self)),
                  EScale(QMul(<<1, 2>>, ar), get_contribution(bcs[2], self)))

\* C11: when the override is unset and no attached condition is a
\* ConstantTemperatureBC, the equation of a node with 0 conditions is conduction
\* + generation, with 1 condition conduction + generation + area x
\* contribution(self), and with 2 conditions conduction + generation + 0.5 x area
\* x contribution(self) summed over both, conduction and generation being the
\* sums over the complete quadrants.
C11_Combination ==
    (Computed /\ Combines(nodes[ret.args])) =>
        /\ ret.exc = ""
        /\ ret.val = <<EAdd(EAdd(Conduction(ret.args), Generation(ret.args)),
                            Contributions(ret.args))>>

\* C11 for the nodes that have an area: 1 to 3 complete quadrants, or no condition
C11_CombinationWithArea ==
    (/\ Computed
     /\ Combines(nodes[ret.args])
     /\ (number_rects(nodes[ret.args]) > 0 \/ nodes[ret.args].boundary_conditions = <<>>)) =>
        /\ ret.exc = ""
        /\ ret.val = <<EAdd(EAdd(Conduction(ret.args), Generation(ret.args)),
                            Contributions(ret.args))>>

\* The slot next to p in direction d
Toward(p, d) ==
    LET e == CHOOSE t \in directions : t[3] = d IN <<p[1] + e[1], p[2] + e[2]>>

\* C12: after any sequence of removals and connect_neighbors() calls on the
\* constructed mesh, a quadrant flag of compute_finite_difference that is true
\* implies that both orthogonal neighbor flags of the quadrant are true and that
\* the grid slots of both orthogonal neighbors and of the diagonal neighbor are
\* occupied.
C12_CompleteImpliesPresent ==
    \A p \in Occupied : \A qd \in Quadrants :
        Complete(nodes[p], qd) =>
            /\ HasNeighbor(nodes[p], Horizontal(qd))
            /\ HasNeighbor(nodes[p], Vertical(qd))
            /\ \A d \in {qd, Horizontal(qd), Vertical(qd)} : Toward(p, d) \in Occupied

\* After a removal some node keeps a complete quadrant and has another quadrant
\* whose diagonal neighbor is there while the removed node was one of its
\* orthogonal neighbors.
C12_Witness ==
    /\ ret.op = "remove"
    /\ \E p \in Occupied : \E qd \in Quadrants : \E other \in Quadrants :
          /\ Complete(nodes[p], other)
          /\ HasNeighbor(nodes[p], qd)
          /\ ~Complete(nodes[p], qd)
          /\ ret.args \in {Toward(p, Horizontal(qd)), Toward(p, Vertical(qd))}

\* C14: for every node with no override, 0 to 2 boundary conditions, and not
\* (4 complete quadrants with at least one condition), compute_finite_difference
\* returns an equation and does not raise, whatever the number of its complete
\* quadrants from 0 to 4, a node with 0 complete quadrants that carries a
\* Convection or Flux condition included.
C14_RaisesOnlyAsDocumented ==
    (/\ Computed
     /\ nodes[ret.args].override = None
     /\ Len(nodes[ret.args].boundary_conditions) \in {0, 1, 2}
     /\ ~(/\ number_rects(nodes[ret.args]) = 4
          /\ Len(nodes[ret.args].boundary_conditions) > 0)) =>
        /\ ret.exc = ""
        /\ ret.val # None

-----------------------------------------------------------------------------
(* Mesh.build_matrix_equation and Mesh.solve (mesh.py).                     *)

\* for row in self.nodes: for node in row: if isinstance(node, Node): the
\* slots of the nodes, row by row
RowMajor(ns, ncols, nrows) ==
    SelectSeq([t \in 1..(ncols * nrows) |-> <<(t - 1) \div ncols, (t - 1) % ncols>>],
              LAMBDA p : IsNode(ns[p]))

\* The list f with every element computed (TLC leaves [t \in S |-> e]
\* unevaluated until it is applied, and computes e again at every application)
Listed(f) == SubSeq(f, 1, Len(f))

\* get_finite_difference_equations: what compute_finite_difference returns or
\* raises for each node, row by row
get_finite_difference_equations(ns, sym, dx, dy, ncols, nrows) ==
    LET cells == RowMajor(ns, ncols, nrows)
    IN  Listed([t \in 1..Len(cells) |-> compute_finite_difference(ns, sym, dx, dy, cells[t])])

\* has_dups(symbols)
HasDups(symbols) ==
    \E i \in 1..Len(symbols) : \E j \in 1..Len(symbols) : i # j /\ symbols[i] = symbols[j]

\* linear_eq_to_matrix with the constant terms left on the side of the unknowns
linear_eq_to_matrix_unmoved(equations, symbols) ==
    [A |-> Listed([i \in 1..Len(equations) |->
               Listed([j \in 1..Len(symbols) |-> ECoef(equations[i], symbols[j])])]),
     b |-> Listed([i \in 1..Len(equations) |->
               {t \in equations[i] : \A j \in 1..Len(symbols) : t[1] # symbols[j]}])]

\* sp.linear_eq_to_matrix(equations, symbols): A[i][j] is the coefficient of
\* symbols[j] in equations[i], and b[i] is minus the rest of equations[i]
linear_eq_to_matrix(equations, symbols) ==
    [A |-> Listed([i \in 1..Len(equations) |->
               Listed([j \in 1..Len(symbols) |-> ECoef(equations[i], symbols[j])])]),
     b |-> Listed([i \in 1..Len(equations) |->
               EScale(<<-1, 1>>,
                      {t \in equations[i] : \A j \in 1..Len(symbols) : t[1] # symbols[j]})])]

\* The matrix form of the equations the nodes of cells returned in results
MatrixForm(cells, symbols, results) ==
    \* every result is bound once, to the list of the equations
    The({ The({ Return("build_matrix_equation", None,
                       [A |-> Ab.A, symbols |-> symbols, b |-> Ab.b])
                : Ab \in {linear_eq_to_matrix(equations, symbols)} })
          : equations \in {Listed([t \in 1..Len(cells) |-> results[t].val[1]])} })

\* build_matrix_equation: the symbols are listed, the equations assembled (the
\* first exception of a node goes through), the matrix form taken (no symbol
\* at all, or duplicated symbols, raise ValueError)
build_matrix_equation(ns, sym, dx, dy, ncols, nrows) ==
    The({ LET failed == {t \in 1..Len(cells) : results[t].exc # ""}
              first == CHOOSE t \in failed : \A u \in failed : t <= u
          IN  IF failed # {}
              THEN Raise("build_matrix_equation", None, results[first].exc, results[first].by)
              ELSE IF Len(symbols) = 0
              THEN Raise("build_matrix_equation", None, "ValueError", "Symbols must be given")
              ELSE IF HasDups(symbols)
              THEN Raise("build_matrix_equation", None, "ValueError", "Symbols must be unique")
              ELSE MatrixForm(cells, symbols, results)
          : cells \in {RowMajor(ns, ncols, nrows)},
            symbols \in {Listed([t \in 1..Cardinality({p \in Slots(ncols, nrows) : IsNode(ns[p])})
                                    |-> sym[RowMajor(ns, ncols, nrows)[t]]])},
            results \in {get_finite_difference_equations(ns, sym, dx, dy, ncols, nrows)} })

\* A, symbols, b = mesh.build_matrix_equation()
BuildMatrixEquation ==
    /\ ret' = build_matrix_equation(nodes, symbolic_temp, delta_x, delta_y, width, height)
    /\ UNCHANGED <<width, height, delta_x, delta_y, symbolic_temp, nodes>>

\* print(mesh.get_finite_difference_equations()): the list of the equations,
\* or the first exception of a node
GetFiniteDifferenceEquations ==
    /\ \E results \in {get_finite_difference_equations(nodes, symbolic_temp, delta_x,
                                                         delta_y, width, height)} :
          LET failed == {t \in 1..Len(results) : results[t].exc # ""}
              first == CHOOSE t \in failed : \A u \in failed : t <= u
          IN  ret' = IF failed # {}
                     THEN Raise("get_finite_difference_equations", None,
                                results[first].exc, results[first].by)
                     ELSE Return("get_finite_difference_equations", None,
                                 Listed([t \in 1..Len(results) |-> results[t].val[1]]))
    /\ UNCHANGED <<width, height, delta_x, delta_y, symbolic_temp, nodes>>

\* The write-back building each node anew around its temperature
solved_reconstructing(ns, ncols, nrows) ==
    LET cells == RowMajor(ns, ncols, nrows)
    IN  [p \in Slots(ncols, nrows) |->
            IF IsNode(ns[p])
            THEN [NewNode EXCEPT !.neighbors = ns[p].neighbors,
                                 !.temperature =
                                     Solution((CHOOSE t \in 1..Len(cells) : cells[t] = p) - 1)]
            ELSE ns[p]]

\* The nodes after the loop that writes float(x[idx]) to the node of index idx
solved(ns, ncols, nrows) ==
    LET cells == RowMajor(ns, ncols, nrows)
    IN  [p \in Slots(ncols, nrows) |->
            IF IsNode(ns[p])
            THEN [ns[p] EXCEPT !.temperature =
                      Solution((CHOOSE t \in 1..Len(cells) : cells[t] = p) - 1)]
            ELSE ns[p]]

\* a < b and |a| for rationals
QLess(a, b) == The({ x[1] * y[2] < y[1] * x[2] : x \in {a}, y \in {b} })
QAbs(a) == The({ <<Abs(x[1]), x[2]>> : x \in {a} })

\* The sum of |row[j]| over the columns j <= upto other than column i
RECURSIVE OffDiagonal(_, _, _)
OffDiagonal(row, i, upto) ==
    IF upto = 0 THEN QZero
    ELSE QAdd(IF upto = i THEN QZero ELSE QAbs(row[upto]), OffDiagonal(row, i, upto - 1))

\* Row i of A is weakly (strictly) diagonally dominant
WeaklyDominant(A, i) ==
    The({ ~QLess(QAbs(row[i]), OffDiagonal(row, i, Len(row))) : row \in {A[i]} })
StrictlyDominant(A, i) ==
    The({ QLess(OffDiagonal(row, i, Len(row)), QAbs(row[i])) : row \in {A[i]} })

\* The rows from which a chain of nonzero entries A[i][j] leads into the rows R
RECURSIVE ChainedTo(_, _)
ChainedTo(A, R) ==
    LET more == {i \in 1..Len(A) : i \notin R /\ \E j \in R : A[i][j] # QZero}
    IN  IF more = {} THEN R ELSE ChainedTo(A, R \cup more)

\* A.solve(b) has one solution and does not raise NonInvertibleMatrixError when
\* A is square and not singular.  That much is known of A without solving when
\* A is weakly chained diagonally dominant: every row is weakly dominant, and
\* from every row a chain of nonzero entries leads to a strictly dominant row.
WeaklyChainedDominant(A) ==
    The({ /\ \A i \in 1..Len(M) : Len(M[i]) = Len(M) /\ WeaklyDominant(M, i)
          /\ ChainedTo(M, {i \in 1..Len(M) : StrictlyDominant(M, i)}) = 1..Len(M)
          : M \in {A} })

\* Entry i of the solution x of A x = b, when equation i alone decides it: row
\* i of A is zero but for A[i][i], and b[i] is a number
DecidedAlone(A, b, i) ==
    IF /\ A[i][i] # QZero
       /\ \A j \in 1..Len(A[i]) : j # i => A[i][j] = QZero
       /\ EKeys(b[i]) \subseteq {None}
    THEN <<QDiv(ECoef(b[i], None), A[i][i])>>
    ELSE None

\* mesh.solve(): an exception of the assembly or of the matrix form goes
\* through before any temperature is written; A.solve(b) then raises when A is
\* singular, which depends on the numbers in A: both outcomes are kept, but for
\* an A that is known not to be singular.  float(x[idx]) is given a number:
\* the equations name no symbol but those of the nodes in the grid.
Solve ==
    \E r \in {build_matrix_equation(nodes, symbolic_temp, delta_x, delta_y, width, height)} :
        /\ \/ /\ r.exc # ""
              /\ ret' = Raise("solve", None, r.exc, r.by)
              /\ UNCHANGED nodes
           \/ /\ r.exc = ""
              /\ ~WeaklyChainedDominant(r.val.A)
              /\ ret' = Raise("solve", None, "NonInvertibleMatrixError", "A.solve(b)")
              /\ UNCHANGED nodes
           \/ /\ r.exc = ""
              /\ nodes' = solved(nodes, width, height)
              /\ ret' = Return("solve", None, None)
        /\ UNCHANGED <<width, height, delta_x, delta_y, symbolic_temp>>

\* The meshes the matrix form is taken of: two rows of two nodes, and the one
\* row of four nodes spaced 0.7 apart
SolveMeshArgs ==
    { [width |-> 2, height |-> 2, delta_x |-> <<1, 5>>, delta_y |-> <<2, 5>>],
      [width |-> 4, height |-> 1, delta_x |-> <<7, 10>>, delta_y |-> <<1, 5>>] }

InitSolve == InitOf(SolveMeshArgs)

NextSolve ==
    \/ \E p \in Pos : Remove(p[1], p[2])
    \/ \E p \in Targets : \E bc \in BoundaryConditions : AddBoundaryCondition(p, bc)
    \/ \E p \in Targets : \E e \in Overrides(p) : SetOverride(p, e)
    \/ BuildMatrixEquation
    \/ Solve

SpecSolve == InitSolve /\ [][NextSolve]_vars

-----------------------------------------------------------------------------
(* create_and_solve_mesh (main.py): the mesh of 5 columns and 6 rows, its   *)
(* boundary conditions, the overrides of its two chamfered corners.         *)

ScenarioMeshArgs ==
    { [width |-> 5, height |-> 6, delta_x |-> <<1, 5>>, delta_y |-> <<1, 5>>] }

InitScenario == InitOf(ScenarioMeshArgs)

\* The conditions apply_boundary_conditions appends to the node of slot
\* <<i, j>>, in the order of its statements
Appended(i, j, ncols, nrows) ==
    (IF i = 0 THEN <<ConstantTemperatureBC(const_temp)>> ELSE <<>>)
    \o (IF i = 5 /\ 1 <= j /\ j < ncols - 1 THEN <<ConvectionBC(h, tinf)>> ELSE <<>>)
    \o (IF j = 4 /\ i < nrows - 1 THEN <<HeatFluxBC(q_prime_prime)>> ELSE <<>>)
    \o (IF <<i, j>> \in {<<4, 0>>, <<4, 4>>} THEN <<ConvectionBC(h, tinf)>> ELSE <<>>)

\* The references to nodes[5][0] and to nodes[5][4] are cleared where the
\* slot holds a node, then both slots are set to None
CornersRemoved(ns, ncols, nrows) ==
    LET a == IF ns[<<5, 0>>] # NoNode THEN clear_neighbor_references(ns, ncols, nrows, 5, 0) ELSE ns
        b == IF a[<<5, 4>>] # NoNode THEN clear_neighbor_references(a, ncols, nrows, 5, 4) ELSE a
    IN  [b EXCEPT ![<<5, 0>>] = NoNode, ![<<5, 4>>] = NoNode]

\* apply_boundary_conditions(mesh, const_temp, h, T_inf, q_prime_prime)
apply_boundary_conditions(ns, ncols, nrows) ==
    LET removed == CornersRemoved(ns, ncols, nrows)
    IN  [p \in Slots(ncols, nrows) |->
            IF Appended(p[1], p[2], ncols, nrows) = <<>> THEN removed[p]
            ELSE [removed[p] EXCEPT !.boundary_conditions = @ \o Appended(p[1], p[2], ncols, nrows)]]

\* The nodes apply_boundary_conditions calls add_boundary_condition on
Conditioned(ncols, nrows) == {p \in Slots(ncols, nrows) : Appended(p[1], p[2], ncols, nrows) # <<>>}

\* The mesh holds the rows and columns apply_boundary_conditions indexes, and
\* a node in every slot it attaches a condition to
ApplyBoundaryConditions ==
    /\ height > 5
    /\ width > 4
    /\ \A p \in Conditioned(width, height) :
          /\ IsNode(nodes[p])
          /\ Len(nodes[p].boundary_conditions \o Appended(p[1], p[2], width, height))
                <= MaxBoundaryConditions
    /\ nodes' = apply_boundary_conditions(nodes, width, height)
    /\ ret' = Return("apply_boundary_conditions", None, None)
    /\ UNCHANGED <<width, height, delta_x, delta_y, symbolic_temp>>

\* math.sqrt(2) is not a rational: it is taken from below and from above
Sqrt2 == {<<707, 500>>, <<283, 200>>}

\* The expression main.py assigns to the override of a chamfered corner:
\* (3/8)*q_dot_gen/k*deltax**2 + h*(deltax/sqrt(2))*(tinf - T)
\* + deltay*q_prime_prime/2 + k*(deltay/2)*((T_side - T)/deltax)
\* + k*(deltax/2)*((T_down - T)/deltay)
corner_override(ns, sym, dx, dy, p, side, sqrt2) ==
    LET self == sym[p]
        T_side == sym[ns[p].neighbors[side]]
        T_down == sym[ns[p].neighbors["down"]]
    IN  EAdd(EAdd(EConst(QMul(QDiv(QMul(<<3, 8>>, Q(q_dot_gen)), Q(k)), QMul(dx, dx))),
                  EScale(QMul(Q(h), QDiv(dx, sqrt2)), ESub(EConst(Q(tinf)), ESym(self)))),
             EAdd(EConst(QDiv(QMul(dy, Q(q_prime_prime)), Q(2))),
                  EAdd(EScale(QDiv(QMul(Q(k), QDiv(dy, Q(2))), dx),
                              ESub(ESym(T_side), ESym(self))),
                       EScale(QDiv(QMul(Q(k), QDiv(dx, Q(2))), dy),
                              ESub(ESym(T_down), ESym(self))))))

\* The corners main.py overrides: mesh[0,4] by its right and its down
\* neighbor, mesh[4,4] by its left and its down neighbor
Corners == {<<0, 4, "right">>, <<4, 4, "left">>}

\* mesh[m, n].override = the expression above: mesh[m, n] is a node that has a
\* neighbor on that side and a neighbor down
SetCornerOverride(m, n, side, sqrt2) ==
    LET g == getitem(nodes, width, height, m, n)
    IN  /\ g.exc = ""
        /\ g.val # None
        /\ nodes[g.val].neighbors[side] # None
        /\ nodes[g.val].neighbors["down"] # None
        /\ nodes' = [nodes EXCEPT ![g.val].override =
                        <<corner_override(nodes, symbolic_temp, delta_x, delta_y,
                                          g.val, side, sqrt2)>>]
        /\ ret' = Return("override", g.val, None)
        /\ UNCHANGED <<width, height, delta_x, delta_y, symbolic_temp>>

\* create_node_plots: the indices get_node_temperatures reads
node_indices == {<<0, 2>>, <<1, 2>>, <<2, 2>>, <<3, 2>>, <<4, 2>>}

NextScenario ==
    \/ ApplyBoundaryConditions
    \/ \E c \in Corners : \E s \in Sqrt2 : SetCornerOverride(c[1], c[2], c[3], s)
    \/ Solve
    \/ GetFiniteDifferenceEquations
    \/ BuildMatrixEquation
    \/ \E c \in node_indices : GetItem(c[1], c[2])

SpecScenario == InitScenario /\ [][NextScenario]_vars

Next ==
    \/ \E p \in Pos : Remove(p[1], p[2])
    \/ ConnectNeighbors
    \/ \E m \in Indices, n \in Indices : GetItem(m, n)
    \/ \E p \in Pos : \E bc \in BoundaryConditions : AddBoundaryCondition(p, bc)
    \/ \E p \in Pos : \E e \in Overrides(p) : SetOverride(p, e)
    \/ \E p \in Pos : ComputeFiniteDifference(p)
    \/ GetFiniteDifferenceEquations
    \/ BuildMatrixEquation
    \/ Solve
    \/ ApplyBoundaryConditions
    \/ \E c \in Corners : \E s \in Sqrt2 : SetCornerOverride(c[1], c[2], c[3], s)

Spec == Init /\ [][Next]_vars

-----------------------------------------------------------------------------
(* Properties of the matrix form.                                           *)

\* Every node of the grid gets an equation from compute_finite_difference
Assembles ==
    \A p \in Occupied :
        compute_finite_difference(nodes, symbolic_temp, delta_x, delta_y, p).exc = ""

\* C7, for a grid all of whose n nodes get an equation: build_matrix_equation
\* returns n pairwise distinct symbols, the symbol of index i being that of the
\* i-th node row by row, and a matrix of n rows and n columns whose row i holds
\* the coefficients of the equation of that same node; and solve, when it
\* returns, has written entry i of the solution to that same node.
C7_Correspondence ==
    LET cells == RowMajor(nodes, width, height)
        n == Cardinality(Occupied)
    IN  /\ (ret.op = "build_matrix_equation" /\ Assembles) =>
              /\ ret.exc = ""
              /\ Len(cells) = n
              /\ Len(ret.val.symbols) = n
              /\ \A i \in 1..n : ret.val.symbols[i] = symbolic_temp[cells[i]]
              /\ \A i \in 1..n : \A j \in 1..n : i # j => ret.val.symbols[i] # ret.val.symbols[j]
              /\ Len(ret.val.A) = n
              /\ \A i \in 1..n :
                    /\ Len(ret.val.A[i]) = n
                    /\ \A j \in 1..n :
                          ret.val.A[i][j] =
                              ECoef(compute_finite_difference(nodes, symbolic_temp, delta_x,
                                                              delta_y, cells[i]).val[1],
                                    ret.val.symbols[j])
        /\ (ret.op = "solve" /\ ret.exc = "") =>
              \A i \in 1..n : nodes[cells[i]].temperature = Solution(i - 1)

\* What solve() raises while it assembles the equations, takes their matrix
\* form or solves the linear system
SolveErrors == {"Exception", "UnboundLocalError", "ValueError", "NonInvertibleMatrixError"}

\* C15: a solve() that raises while assembling a node's equation or while
\* solving the linear system has modified no node's temperature; and every
\* solve() leaves the mesh as it was but for the temperature of the nodes in the
\* grid: the neighbor maps, the lists of boundary conditions, the overrides and
\* the occupancy of the slots are unchanged.
C15_AllOrNothing ==
    [][ret'.op = "solve" =>
           /\ ret'.exc \in SolveErrors \cup {""}
           /\ ret'.exc \in SolveErrors => nodes' = nodes
           /\ <<width, height, delta_x, delta_y, symbolic_temp>>'
                 = <<width, height, delta_x, delta_y, symbolic_temp>>
           /\ \A p \in Pos :
                 IF IsNode(nodes[p])
                 THEN nodes'[p] = [nodes[p] EXCEPT !.temperature = nodes'[p].temperature]
                 ELSE nodes'[p] = nodes[p]]_vars

\* solve() raised while assembling the equation of a node, on a mesh whose
\* nodes carry the temperatures an earlier solve() wrote: conditions were
\* attached in between.
C15_Witness ==
    /\ ret.op = "solve"
    /\ ret.exc = "Exception"
    /\ \A p \in Occupied : nodes[p].temperature # InitialTemperature

\* The grid and the conditions are those apply_boundary_conditions leaves on
\* the mesh Mesh.__init__ built: the two top corners are vacated and every other
\* slot holds a node with the conditions appended to it, once
ScenarioConditions ==
    /\ Vacated = {<<5, 0>>, <<5, 4>>}
    /\ \A p \in Occupied :
          nodes[p].boundary_conditions = Appended(p[1], p[2], width, height)

====
